---- MODULE Spec2Model ----
(***************************************************************************)
(* Model of src/cape.py: the Streamlit script that reads a sounding table, *)
(* guesses the temperature / dew point / pressure / altitude columns,      *)
(* builds the cleaned pressure-ordered profile, calls the three MetPy      *)
(* index functions and classifies the thunderstorm chance.                 *)
(*                                                                         *)
(* One run of the script is one behaviour: pc is the position in the       *)
(* script, the other variables are the script's Python variables.          *)
(*                                                                         *)
(* Values.  A column name is a sequence of one-character strings.  A float *)
(* is <<"f", n>>, standing for the number n / Scale, or <<"nan">>.  Python *)
(* None is <<"None">>.  A table cell is <<"num", n>> (the number n),       *)
(* <<"text", s>> (the string s) or <<"blank">> (a missing cell).           *)
(***************************************************************************)
EXTENDS Integers, Sequences, FiniteSets, TLC

\* ------------------------------------------------------------------ bounds
\* Floats are multiples of 1/Scale.
Scale == 2
\* Longest column list of the column-inference specification.
MaxCols == 3
\* Most rows of a table in the profile specification.
MaxRows == 3
\* Longest array the index library returns in the evaluation specification.
MaxArr == 2

\* ------------------------------------------------------------------ values
None == <<"None">>
NoneOption == <<"(", "N", "o", "n", "e", ")">>
NaN == <<"nan">>
F(n) == <<"f", n>>
IsFinite(x) == x[1] = "f"

\* Python float comparisons: every comparison with nan is False.
Lt(a, b) == IsFinite(a) /\ IsFinite(b) /\ a[2] < b[2]
Le(a, b) == IsFinite(a) /\ IsFinite(b) /\ a[2] <= b[2]
Gt(a, b) == IsFinite(a) /\ IsFinite(b) /\ a[2] > b[2]
Ge(a, b) == IsFinite(a) /\ IsFinite(b) /\ a[2] >= b[2]

\* ------------------------------------------------------------------ strings
UpperAlpha == <<"A", "B", "C", "D", "E", "F", "G", "H", "I", "J", "K", "L", "M",
                "N", "O", "P", "Q", "R", "S", "T", "U", "V", "W", "X", "Y", "Z">>
LowerAlpha == <<"a", "b", "c", "d", "e", "f", "g", "h", "i", "j", "k", "l", "m",
                "n", "o", "p", "q", "r", "s", "t", "u", "v", "w", "x", "y", "z">>

LowerChar(c) ==
    IF \E k \in DOMAIN UpperAlpha : UpperAlpha[k] = c
    THEN LowerAlpha[CHOOSE k \in DOMAIN UpperAlpha : UpperAlpha[k] = c]
    ELSE c

\* Faulty variant of Lower: the name is matched as written.
LowerKeepsCase(s) == s

\* str.lower()
Lower(s) == [k \in DOMAIN s |-> LowerChar(s[k])]

\* sub in s
Contains(sub, s) ==
    \E k \in 1..(Len(s) - Len(sub) + 1) : SubSeq(s, k, k + Len(sub) - 1) = sub

SubTemp == <<"t", "e", "m", "p">>
SubDew == <<"d", "e", "w">>
SubPress == <<"p", "r", "e", "s", "s">>
SubAlt == <<"a", "l", "t">>
SubHeight == <<"h", "e", "i", "g", "h", "t">>

\* "x in df.columns"
InColumns(c, cols) == \E k \in DOMAIN cols : cols[k] = c

\* list(df.columns).index(c): the first position, 0-based
IndexOf(c, cols) == (CHOOSE k \in DOMAIN cols :
                        cols[k] = c /\ \A j \in 1..(k - 1) : cols[j] # c) - 1

\* ------------------------------------------------------------------ cells
Digits == <<"0", "1", "2", "3", "4", "5", "6", "7", "8", "9">>
IsDigit(c) == \E k \in DOMAIN Digits : Digits[k] = c
DigitVal(c) == (CHOOSE k \in DOMAIN Digits : Digits[k] = c) - 1

RECURSIVE DigitsValue(_)
DigitsValue(s) ==
    IF s = <<>> THEN 0
    ELSE 10 * DigitsValue(SubSeq(s, 1, Len(s) - 1)) + DigitVal(s[Len(s)])

AllDigits(s) == Len(s) >= 1 /\ \A k \in DOMAIN s : IsDigit(s[k])

\* The float a string parses to under pd.to_numeric(errors="coerce"): an
\* optionally signed run of digits is that number, anything else is NaN.
ParseText(s) ==
    IF AllDigits(s) THEN F(DigitsValue(s) * Scale)
    ELSE IF Len(s) >= 2 /\ s[1] = "-" /\ AllDigits(Tail(s))
         THEN F(0 - DigitsValue(Tail(s)) * Scale)
         ELSE NaN

\* pd.to_numeric(errors="coerce") on one cell
ToNumeric(cell) ==
    CASE cell[1] = "num" -> F(cell[2] * Scale)
      [] cell[1] = "text" -> ParseText(cell[2])
      [] OTHER -> NaN

\* ------------------------------------------------------------------ state
VARIABLES
    pc,          \* position in the script
    uploaded,    \* uploaded_file is not None
    columns,     \* df.columns
    rows,        \* df's rows, each a sequence of cells, one per column
    i,           \* position of the column-scan loop
    temp_col, dew_col, press_col, alt_col,
    overrode,    \* the user changed a selectbox from its default
    prof,        \* the profile frame: rows [idx, T, Td, P]
    lib,         \* what k_index / lifted_index / showalter_index do on this profile
    calls,       \* number of index functions called so far
    K, LI, SI,   \* the raw results of the three index functions
    k_val, li_val, si_val,
    final_text, k_cat, li_cat, si_cat,
    ui           \* what has been shown so far, in order

vars == <<pc, uploaded, columns, rows, i, temp_col, dew_col, press_col, alt_col,
          overrode, prof, lib, calls, K, LI, SI, k_val, li_val, si_val,
          final_text, k_cat, li_cat, si_cat, ui>>

roleVars == <<temp_col, dew_col, press_col, alt_col>>
tableVars == <<uploaded, columns, rows>>
rawVars == <<K, LI, SI>>
valVars == <<k_val, li_val, si_val>>
catVars == <<k_cat, li_cat, si_cat>>

\* ------------------------------------------------------------------ column inference
\* One iteration of "for col in df.columns" on column col.
\* Faulty variant of ScanTemp: a later match replaces an earlier one.
ScanTempLastWins(col, cur) == IF Contains(SubTemp, Lower(col)) THEN col ELSE cur
ScanTemp(col, cur) == IF Contains(SubTemp, Lower(col)) /\ cur = None THEN col ELSE cur
ScanDew(col, cur) == IF Contains(SubDew, Lower(col)) /\ cur = None THEN col ELSE cur
ScanPress(col, cur) == IF Contains(SubPress, Lower(col)) /\ cur = None THEN col ELSE cur
ScanAlt(col, cur) ==
    IF (Contains(SubAlt, Lower(col)) \/ Contains(SubHeight, Lower(col))) /\ cur = None
    THEN col ELSE cur

ScanColumn ==
    /\ pc = "scan"
    /\ i <= Len(columns)
    /\ temp_col' = ScanTemp(columns[i], temp_col)
    /\ dew_col' = ScanDew(columns[i], dew_col)
    /\ press_col' = ScanPress(columns[i], press_col)
    /\ alt_col' = ScanAlt(columns[i], alt_col)
    /\ i' = i + 1
    /\ UNCHANGED <<pc, tableVars, overrode, prof, lib, calls, rawVars, valVars,
                   final_text, catVars, ui>>

\* The positional fallback of role cur to the column at 0-based position pos.
FallbackCol(cur, cols, pos) == IF cur = None /\ Len(cols) >= pos + 1 THEN cols[pos + 1] ELSE cur

TempPos == 0
DewPos == 1
PressPos == 2

Fallbacks ==
    /\ pc = "scan"
    /\ i > Len(columns)
    /\ temp_col' = FallbackCol(temp_col, columns, TempPos)
    /\ dew_col' = FallbackCol(dew_col, columns, DewPos)
    /\ press_col' = FallbackCol(press_col, columns, PressPos)
    /\ pc' = "select"
    /\ UNCHANGED <<tableVars, i, alt_col, overrode, prof, lib, calls, rawVars, valVars,
                   final_text, catVars, ui>>

\* ------------------------------------------------------------------ column selection
Range(s) == {s[k] : k \in DOMAIN s}

\* The option st.selectbox(label, df.columns, index=...) shows first: the detected
\* column when it is a column of the table, else option 0; None without options.
DefaultOption(cur, cols) ==
    IF cols = <<>> THEN None
    ELSE cols[(IF InColumns(cur, cols) THEN IndexOf(cur, cols) ELSE 0) + 1]

AltOptions(cols) == <<NoneOption>> \o cols

DefaultAlt(cur, cols) ==
    AltOptions(cols)[(IF InColumns(cur, cols) THEN IndexOf(cur, AltOptions(cols)) ELSE 0) + 1]

\* A selectbox returns its default option or any option the user picked.
SelectColumns ==
    /\ pc = "select"
    /\ \E t \in {DefaultOption(temp_col, columns)} \cup Range(columns),
          d \in {DefaultOption(dew_col, columns)} \cup Range(columns),
          p \in {DefaultOption(press_col, columns)} \cup Range(columns),
          a \in Range(AltOptions(columns)) :
            /\ temp_col' = t
            /\ dew_col' = d
            /\ press_col' = p
            /\ alt_col' = a
            /\ overrode' = (<<t, d, p, a>> # <<DefaultOption(temp_col, columns),
                                                DefaultOption(dew_col, columns),
                                                DefaultOption(press_col, columns),
                                                DefaultAlt(alt_col, columns)>>)
    /\ pc' = "prepare"
    /\ UNCHANGED <<tableVars, i, prof, lib, calls, rawVars, valVars, final_text,
                   catVars, ui>>

\* ------------------------------------------------------------------ profile
\* df[[temp_col, dew_col, press_col]] raises KeyError for a label that is no column;
\* with one label twice prof[label] is a frame and pd.to_numeric raises TypeError.
\* Neither is inside the try block.
CanProject(cols, t, d, p) ==
    /\ InColumns(t, cols) /\ InColumns(d, cols) /\ InColumns(p, cols)
    /\ t # d /\ t # p /\ d # p

CellOf(row, cols, c) == row[IndexOf(c, cols) + 1]

\* The three columns, coerced: one record per table row, idx the row's index label.
Coerce(rws, cols, t, d, p) ==
    [k \in DOMAIN rws |->
        [idx |-> k - 1,
         T |-> ToNumeric(CellOf(rws[k], cols, t)),
         Td |-> ToNumeric(CellOf(rws[k], cols, d)),
         P |-> ToNumeric(CellOf(rws[k], cols, p))]]

\* Faulty variant of Complete: the dew point is not looked at.
CompleteTempPress(r) == r.T # NaN /\ r.P # NaN

\* A row dropna() keeps: none of its values is missing.
Complete(r) == r.T # NaN /\ r.Td # NaN /\ r.P # NaN

DropNa(frame) == SelectSeq(frame, Complete)

PrepareProfile ==
    /\ pc = "prepare"
    /\ IF CanProject(columns, temp_col, dew_col, press_col)
       THEN /\ prof' = DropNa(Coerce(rows, columns, temp_col, dew_col, press_col))
            /\ pc' = "check"
            /\ ui' = ui
       ELSE /\ prof' = prof
            /\ pc' = "crashed"
            /\ ui' = Append(ui, "uncaught_exception")
    /\ UNCHANGED <<tableVars, i, roleVars, overrode, lib, calls, rawVars, valVars,
                   final_text, catVars>>

EmptyProfile ==
    /\ pc = "check"
    /\ prof = <<>>
    /\ ui' = Append(ui, "error_no_data")
    /\ pc' = "done"
    /\ UNCHANGED <<tableVars, i, roleVars, overrode, prof, lib, calls, rawVars, valVars,
                   final_text, catVars>>

\* Faulty variant of Before: ascending order.
BeforeAscending(a, b) == Le(a.P, b.P)

\* Row a may stand directly before row b under ascending=False.
Before(a, b) == Ge(a.P, b.P)

\* sort_values(by=press_col, ascending=False) with the default kind="quicksort",
\* which is not a stable sort: any arrangement of the rows that is ordered by the
\* key is a possible result.
SortValues(frame) ==
    LET n == Len(frame)
        perms == {f \in [1..n -> 1..n] : \A a, b \in 1..n : a # b => f[a] # f[b]}
    IN  {[k \in 1..n |-> frame[f[k]]] :
            f \in {g \in perms : \A k \in 1..(n - 1) : Before(frame[g[k]], frame[g[k + 1]])}}

SortProfile ==
    /\ pc = "check"
    /\ prof # <<>>
    /\ prof' \in SortValues(prof)
    /\ pc' = "callK"
    /\ UNCHANGED <<tableVars, i, roleVars, overrode, lib, calls, rawVars, valVars,
                   final_text, catVars, ui>>

\* ------------------------------------------------------------------ index evaluation
\* What an index function does: it raises, or returns a quantity whose magnitude
\* .m is a 0-d scalar (m holds the one value) or an array (m holds its entries).
Raises == [kind |-> "raise", m |-> <<>>]
Scalar(x) == [kind |-> "scalar", m |-> <<x>>]
Array(a) == [kind |-> "array", m |-> a]
NoResult == [kind |-> "unset", m |-> <<>>]

\* float(q.m) succeeds for a scalar and for an array of exactly one element, and
\* raises TypeError for any other array.
\* Faulty variant of CanFloat: every returned magnitude converts.
CanFloatAlways(q) == TRUE
\* Faulty variant of CanFloat: only a 0-d magnitude converts.
CanFloatScalarOnly(q) == q.kind = "scalar"
CanFloat(q) == q.kind = "scalar" \/ (q.kind = "array" /\ Len(q.m) = 1)
FloatOf(q) == q.m[1]

CallK ==
    /\ pc = "callK"
    /\ calls' = calls + 1
    /\ IF lib.K.kind = "raise"
       THEN K' = K /\ pc' = "except"
       ELSE K' = lib.K /\ pc' = "callLI"
    /\ UNCHANGED <<tableVars, i, roleVars, overrode, prof, lib, LI, SI, valVars,
                   final_text, catVars, ui>>

CallLI ==
    /\ pc = "callLI"
    /\ calls' = calls + 1
    /\ IF lib.LI.kind = "raise"
       THEN LI' = LI /\ pc' = "except"
       ELSE LI' = lib.LI /\ pc' = "callSI"
    /\ UNCHANGED <<tableVars, i, roleVars, overrode, prof, lib, K, SI, valVars,
                   final_text, catVars, ui>>

CallSI ==
    /\ pc = "callSI"
    /\ calls' = calls + 1
    /\ IF lib.SI.kind = "raise"
       THEN SI' = SI /\ pc' = "except"
       ELSE SI' = lib.SI /\ pc' = "float"
    /\ UNCHANGED <<tableVars, i, roleVars, overrode, prof, lib, K, LI, valVars,
                   final_text, catVars, ui>>

\* k_val = float(K.m); li_val = float(LI.m); si_val = float(SI.m), in this order:
\* the first conversion that raises leaves the later values unassigned.
ToFloats ==
    /\ pc = "float"
    /\ k_val' = IF CanFloat(K) THEN FloatOf(K) ELSE k_val
    /\ li_val' = IF CanFloat(K) /\ CanFloat(LI) THEN FloatOf(LI) ELSE li_val
    /\ si_val' = IF CanFloat(K) /\ CanFloat(LI) /\ CanFloat(SI) THEN FloatOf(SI) ELSE si_val
    /\ pc' = IF CanFloat(K) /\ CanFloat(LI) /\ CanFloat(SI) THEN "final" ELSE "except"
    /\ UNCHANGED <<tableVars, i, roleVars, overrode, prof, lib, calls, rawVars,
                   final_text, catVars, ui>>

\* ------------------------------------------------------------------ classification
Th(n) == F(n * Scale)

HighK == 35
HighLI == -6
HighSI == -3
ModK == 25
ModLI == -3
ModSI == 1

\* Faulty variant of Overall: LI = -6 counted as High.
OverallInclusiveLI(k, l, s) ==
    IF Ge(k, Th(HighK)) \/ Le(l, Th(HighLI)) \/ Lt(s, Th(HighSI))
    THEN "High"
    ELSE IF \/ (Le(Th(ModK), k) /\ Lt(k, Th(HighK)))
            \/ (Le(Th(HighLI), l) /\ Lt(l, Th(ModLI)))
            \/ (Le(Th(HighSI), s) /\ Lt(s, Th(ModSI)))
         THEN "Moderate"
         ELSE "Low"

Overall(k, l, s) ==
    IF Ge(k, Th(HighK)) \/ Lt(l, Th(HighLI)) \/ Lt(s, Th(HighSI))
    THEN "High"
    ELSE IF \/ (Le(Th(ModK), k) /\ Lt(k, Th(HighK)))
            \/ (Le(Th(HighLI), l) /\ Lt(l, Th(ModLI)))
            \/ (Le(Th(HighSI), s) /\ Lt(s, Th(ModSI)))
         THEN "Moderate"
         ELSE "Low"

FinalLogic ==
    /\ pc = "final"
    /\ final_text' = Overall(k_val, li_val, si_val)
    /\ ui' = ui \o <<"assessment", "metrics">>
    /\ pc' = "interpret"
    /\ UNCHANGED <<tableVars, i, roleVars, overrode, prof, lib, calls, rawVars, valVars,
                   catVars>>

KWeak == 20
KModerate == 25
KHigh == 35

KCat(k) ==
    IF Lt(k, Th(KWeak)) THEN "Very low"
    ELSE IF Le(Th(KWeak), k) /\ Lt(k, Th(KModerate)) THEN "Weak"
    ELSE IF Le(Th(KModerate), k) /\ Lt(k, Th(KHigh)) THEN "Moderate"
    ELSE "High"

LIStable == 0
LISlight == -3
LIModerate == -6

LICat(l) ==
    IF Gt(l, Th(LIStable)) THEN "Stable"
    ELSE IF Le(Th(LISlight), l) /\ Le(l, Th(LIStable)) THEN "Slightly unstable"
    ELSE IF Le(Th(LIModerate), l) /\ Lt(l, Th(LISlight)) THEN "Moderately unstable"
    ELSE "Strongly unstable"

SIStable == 3
SIWeak == 1
SIModerate == -3

\* Faulty variant of SICat: SI = 3 counted as stable.
SICatExclusive(x) ==
    IF Ge(x, Th(SIStable)) THEN "Stable"
    ELSE IF Le(Th(SIWeak), x) /\ Lt(x, Th(SIStable)) THEN "Weakly unstable"
    ELSE IF Le(Th(SIModerate), x) /\ Lt(x, Th(SIWeak)) THEN "Moderately unstable"
    ELSE "Strongly unstable"

SICat(x) ==
    IF Gt(x, Th(SIStable)) THEN "Stable"
    ELSE IF Le(Th(SIWeak), x) /\ Le(x, Th(SIStable)) THEN "Weakly unstable"
    ELSE IF Le(Th(SIModerate), x) /\ Lt(x, Th(SIWeak)) THEN "Moderately unstable"
    ELSE "Strongly unstable"

Interpretation ==
    /\ pc = "interpret"
    /\ k_cat' = KCat(k_val)
    /\ li_cat' = LICat(li_val)
    /\ si_cat' = SICat(si_val)
    /\ ui' = Append(ui, "interpretation")
    /\ pc' = "plot"
    /\ UNCHANGED <<tableVars, i, roleVars, overrode, prof, lib, calls, rawVars, valVars,
                   final_text>>

\* ------------------------------------------------------------------ charts
ProfilePlot ==
    /\ pc = "plot"
    /\ ui' = Append(ui, "profile_chart")
    /\ pc' = "idxchart"
    /\ UNCHANGED <<tableVars, i, roleVars, overrode, prof, lib, calls, rawVars, valVars,
                   final_text, catVars>>

IndexChart ==
    /\ pc = "idxchart"
    /\ ui' = Append(ui, "index_chart")
    /\ pc' = "altplot"
    /\ UNCHANGED <<tableVars, i, roleVars, overrode, prof, lib, calls, rawVars, valVars,
                   final_text, catVars>>

\* The rows of df[[alt_col, temp_col]] left after coercion and dropna().
AltProf(rws, cols, a, t) ==
    LET Both(row) == ToNumeric(CellOf(row, cols, a)) # NaN /\ ToNumeric(CellOf(row, cols, t)) # NaN
    IN  SelectSeq(rws, Both)

\* The optional altitude chart.  With alt_col = temp_col the projected frame has the
\* label twice and pd.to_numeric raises TypeError, here inside the try block.
AltitudePlot ==
    /\ pc = "altplot"
    /\ IF alt_col # NoneOption /\ InColumns(alt_col, columns)
       THEN IF alt_col = temp_col
            THEN ui' = ui /\ pc' = "except"
            ELSE /\ ui' = IF AltProf(rows, columns, alt_col, temp_col) # <<>>
                          THEN Append(ui, "alt_chart") ELSE ui
                 /\ pc' = "done"
       ELSE ui' = ui /\ pc' = "done"
    /\ UNCHANGED <<tableVars, i, roleVars, overrode, prof, lib, calls, rawVars, valVars,
                   final_text, catVars>>

\* Faulty variant of ExceptHandler: the handler also draws the profile plot.
ExceptHandlerPlots ==
    /\ pc = "except"
    /\ ui' = ui \o <<"error_indices", "profile_chart">>
    /\ pc' = "done"
    /\ UNCHANGED <<tableVars, i, roleVars, overrode, prof, lib, calls, rawVars, valVars,
                   final_text, catVars>>

ExceptHandler ==
    /\ pc = "except"
    /\ ui' = Append(ui, "error_indices")
    /\ pc' = "done"
    /\ UNCHANGED <<tableVars, i, roleVars, overrode, prof, lib, calls, rawVars, valVars,
                   final_text, catVars>>

\* ------------------------------------------------------------------ upload
NoUpload ==
    /\ pc = "start"
    /\ ~uploaded
    /\ ui' = Append(ui, "info")
    /\ pc' = "done"
    /\ UNCHANGED <<tableVars, i, roleVars, overrode, prof, lib, calls, rawVars, valVars,
                   final_text, catVars>>

ReadFile ==
    /\ pc = "start"
    /\ uploaded
    /\ ui' = ui \o <<"success", "preview">>
    /\ temp_col' = None
    /\ dew_col' = None
    /\ press_col' = None
    /\ alt_col' = None
    /\ i' = 1
    /\ pc' = "scan"
    /\ UNCHANGED <<tableVars, overrode, prof, lib, calls, rawVars, valVars,
                   final_text, catVars>>

\* ------------------------------------------------------------------ inputs
NTemperature == <<"T", "e", "m", "p", "e", "r", "a", "t", "u", "r", "e">>
NDewPoint == <<"D", "e", "w", " ", "P", "o", "i", "n", "t">>
NDerivedPressure == <<"D", "e", "r", "i", "v", "e", "d", " ", "P", "r", "e", "s", "s", "u", "r", "e">>
NAltitude == <<"A", "l", "t", "i", "t", "u", "d", "e">>
NHeight == <<"H", "E", "I", "G", "H", "T">>
NDewpointTemp == <<"D", "e", "w", "p", "o", "i", "n", "t", " ", "T", "e", "m", "p">>
NTime == <<"T", "i", "m", "e">>
NRH == <<"R", "H">>
NWind == <<"W", "i", "n", "d">>

NamePool == {NTemperature, NDewPoint, NDerivedPressure, NAltitude, NHeight,
             NDewpointTemp, NTime, NRH, NWind}

\* Column lists of length n with distinct names (the readers de-duplicate names).
ColumnLists(n) ==
    IF n = 0 THEN {<<>>}
    ELSE {c \in [1..n -> NamePool] : \A a, b \in 1..n : a # b => c[a] # c[b]}

CText(s) == <<"text", s>>
CNum(n) == <<"num", n>>
CBlank == <<"blank">>

\* Rows of the profile specification: the table has the three columns ProfColumns.
ProfColumns == <<NTemperature, NDewPoint, NDerivedPressure>>
ProfRowPool ==
    {<<t, d, p>> : t \in {CNum(1), CText(<<"x">>)},
                   d \in {CNum(1), CBlank},
                   p \in {CNum(1), CText(<<"2">>)}}

Tables(n) == IF n = 0 THEN {<<>>} ELSE [1..n -> ProfRowPool]

\* Tables of the whole-run specification.
NumRow(n, v) == [k \in 1..n |-> CNum(v)]
TextRow(n) == [k \in 1..n |-> CText(<<"-">>)]
LastBlankRow(n) == [k \in 1..n |-> IF k = n THEN CBlank ELSE CNum(1)]

RunColumnLists ==
    {<<>>, <<NTemperature>>, <<NTemperature, NDewPoint>>,
     <<NTemperature, NDewPoint, NDerivedPressure>>,
     <<NDerivedPressure, NAltitude, NTemperature, NDewPoint>>}

RunRows(n) ==
    IF n = 0 THEN {<<>>}
    ELSE {<<>>, <<TextRow(n)>>, <<NumRow(n, 1), NumRow(n, 2)>>, <<LastBlankRow(n)>>}

\* Library behaviours.
RunOutputs == {Raises, Scalar(Th(ModK)), Array(<<Th(ModK), Th(ModK)>>)}

EvalValues == {F(0), Th(HighK), NaN}
Arrays(n) == IF n = 0 THEN {<<>>} ELSE [1..n -> EvalValues]
EvalOutputs ==
    {Raises} \cup {Scalar(x) : x \in EvalValues}
             \cup {Array(a) : a \in UNION {Arrays(n) : n \in 0..MaxArr}}

Half(lo, hi) == {F(n) : n \in (lo * Scale)..(hi * Scale)} \cup {NaN}
KGrid == Half(KWeak - 1, KHigh + 1)
LIGrid == Half(LIModerate - 1, LIStable + 1)
SIGrid == Half(SIModerate - 1, SIStable + 1)

\* A cleaned, sorted two-level profile for the specifications that start later.
SampleRows == <<NumRow(3, 1), NumRow(3, 2)>>
SampleProf ==
    CHOOSE s \in SortValues(DropNa(Coerce(SampleRows, ProfColumns, NTemperature,
                                           NDewPoint, NDerivedPressure))) : TRUE

\* ------------------------------------------------------------------ specifications
Unset ==
    /\ i = 1
    /\ temp_col = None /\ dew_col = None /\ press_col = None /\ alt_col = None
    /\ overrode = FALSE
    /\ prof = <<>>
    /\ calls = 0
    /\ K = NoResult /\ LI = NoResult /\ SI = NoResult
    /\ k_val = None /\ li_val = None /\ si_val = None
    /\ final_text = "unset" /\ k_cat = "unset" /\ li_cat = "unset" /\ si_cat = "unset"

\* A whole run of the script.
Init ==
    /\ pc = "start"
    /\ uploaded \in BOOLEAN
    /\ columns \in (IF uploaded THEN RunColumnLists ELSE {<<>>})
    /\ rows \in (IF uploaded THEN RunRows(Len(columns)) ELSE {<<>>})
    /\ lib \in [K : RunOutputs, LI : RunOutputs, SI : RunOutputs]
    /\ ui = <<>>
    /\ Unset

Next ==
    \/ NoUpload
    \/ ReadFile
    \/ ScanColumn
    \/ Fallbacks
    \/ SelectColumns
    \/ PrepareProfile
    \/ EmptyProfile
    \/ SortProfile
    \/ CallK
    \/ CallLI
    \/ CallSI
    \/ ToFloats
    \/ FinalLogic
    \/ Interpretation
    \/ ProfilePlot
    \/ IndexChart
    \/ AltitudePlot
    \/ ExceptHandler

Spec == Init /\ [][Next]_vars

\* Column inference on every list of up to MaxCols names.
InitInfer ==
    /\ pc = "scan"
    /\ uploaded = TRUE
    /\ columns \in UNION {ColumnLists(n) : n \in 0..MaxCols}
    /\ rows = <<>>
    /\ lib = [K |-> Raises, LI |-> Raises, SI |-> Raises]
    /\ ui = <<"success", "preview">>
    /\ Unset

NextInfer == ScanColumn \/ Fallbacks

SpecInfer == InitInfer /\ [][NextInfer]_vars

\* Profile preparation on every table of up to MaxRows rows and every choice of
\* the three selectboxes.
InitProfile ==
    /\ pc = "prepare"
    /\ uploaded = TRUE
    /\ columns = ProfColumns
    /\ rows \in UNION {Tables(n) : n \in 0..MaxRows}
    /\ i = Len(columns) + 1
    /\ temp_col \in Range(columns)
    /\ dew_col \in Range(columns)
    /\ press_col \in Range(columns)
    /\ alt_col = NoneOption
    /\ overrode = (<<temp_col, dew_col, press_col>> # columns)
    /\ prof = <<>>
    /\ lib = [K |-> Raises, LI |-> Raises, SI |-> Raises]
    /\ calls = 0
    /\ K = NoResult /\ LI = NoResult /\ SI = NoResult
    /\ k_val = None /\ li_val = None /\ si_val = None
    /\ final_text = "unset" /\ k_cat = "unset" /\ li_cat = "unset" /\ si_cat = "unset"
    /\ ui = <<"success", "preview">>

NextProfile == PrepareProfile \/ EmptyProfile \/ SortProfile

SpecProfile == InitProfile /\ [][NextProfile]_vars

\* The script from the first index call on, the profile built.
Prepared ==
    /\ uploaded = TRUE
    /\ columns = ProfColumns
    /\ rows = SampleRows
    /\ i = Len(columns) + 1
    /\ temp_col = NTemperature /\ dew_col = NDewPoint /\ press_col = NDerivedPressure
    /\ alt_col = NoneOption
    /\ overrode = FALSE
    /\ prof = SampleProf
    /\ ui = <<"success", "preview">>

\* Index evaluation under every library behaviour.
InitEval ==
    /\ pc = "callK"
    /\ Prepared
    /\ lib \in [K : EvalOutputs, LI : EvalOutputs, SI : EvalOutputs]
    /\ calls = 0
    /\ K = NoResult /\ LI = NoResult /\ SI = NoResult
    /\ k_val = None /\ li_val = None /\ si_val = None
    /\ final_text = "unset" /\ k_cat = "unset" /\ li_cat = "unset" /\ si_cat = "unset"

NextEval == CallK \/ CallLI \/ CallSI \/ ToFloats \/ ExceptHandler

SpecEval == InitEval /\ [][NextEval]_vars

\* Classification of every triple of index values on the half-unit grid.
InitClassify ==
    /\ pc = "final"
    /\ Prepared
    /\ k_val \in KGrid /\ li_val \in LIGrid /\ si_val \in SIGrid
    /\ K = Scalar(k_val) /\ LI = Scalar(li_val) /\ SI = Scalar(si_val)
    /\ lib = [K |-> K, LI |-> LI, SI |-> SI]
    /\ calls = 3
    /\ final_text = "unset" /\ k_cat = "unset" /\ li_cat = "unset" /\ si_cat = "unset"

NextClassify == FinalLogic \/ Interpretation

SpecClassify == InitClassify /\ [][NextClassify]_vars

\* ------------------------------------------------------------------ claims
InUi(x) == \E k \in DOMAIN ui : ui[k] = x
CountUi(x) == Cardinality({k \in DOMAIN ui : ui[k] = x})
Classified == final_text # "unset"
Interpreted == k_cat # "unset"
AllFinite == IsFinite(k_val) /\ IsFinite(li_val) /\ IsFinite(si_val)

\* C1: for finite index values the overall assessment is High exactly when
\* K >= 35 or LI < -6 or SI < -3, otherwise Moderate exactly when 25 <= K < 35 or
\* -6 <= LI < -3 or -3 <= SI < 1, otherwise Low; K = 35 gives High, LI = -6 with K
\* and SI in the Low range gives Moderate, K just below 25 with LI >= -3 and
\* SI >= 1 gives Low.
C1_Overall ==
    (Classified /\ AllFinite) =>
        LET k == k_val[2]
            l == li_val[2]
            x == si_val[2]
            high == k >= 35 * Scale \/ l < -6 * Scale \/ x < -3 * Scale
            moderate == \/ (25 * Scale <= k /\ k < 35 * Scale)
                        \/ (-6 * Scale <= l /\ l < -3 * Scale)
                        \/ (-3 * Scale <= x /\ x < 1 * Scale)
        IN  /\ final_text = (IF high THEN "High" ELSE IF moderate THEN "Moderate" ELSE "Low")
            /\ (k = 35 * Scale => final_text = "High")
            /\ (l = -6 * Scale /\ k < 25 * Scale /\ x >= 1 * Scale => final_text = "Moderate")
            /\ (k = 25 * Scale - 1 /\ l >= -3 * Scale /\ x >= 1 * Scale => final_text = "Low")

\* LI = -6 exactly, K and SI in the Low range: Moderate, not High.
C1_Witness ==
    /\ Classified
    /\ li_val = F(-6 * Scale) /\ k_val = F(25 * Scale - 1) /\ si_val = F(1 * Scale)
    /\ final_text = "Moderate"

\* C2: for finite index values each per-index category depends only on its own
\* index and follows the listed intervals: K < 20 very low, [20,25) weak, [25,35)
\* moderate, >= 35 high; LI > 0 stable, [-3,0] slightly, [-6,-3) moderately,
\* < -6 strongly unstable; SI > 3 stable, [1,3] weakly, [-3,1) moderately,
\* < -3 strongly unstable.
C2_Categories ==
    (Interpreted /\ AllFinite) =>
        LET k == k_val[2]
            l == li_val[2]
            x == si_val[2]
        IN  /\ k_cat = "Very low" <=> k < 20 * Scale
            /\ k_cat = "Weak" <=> (20 * Scale <= k /\ k < 25 * Scale)
            /\ k_cat = "Moderate" <=> (25 * Scale <= k /\ k < 35 * Scale)
            /\ k_cat = "High" <=> k >= 35 * Scale
            /\ li_cat = "Stable" <=> l > 0
            /\ li_cat = "Slightly unstable" <=> (-3 * Scale <= l /\ l <= 0)
            /\ li_cat = "Moderately unstable" <=> (-6 * Scale <= l /\ l < -3 * Scale)
            /\ li_cat = "Strongly unstable" <=> l < -6 * Scale
            /\ si_cat = "Stable" <=> x > 3 * Scale
            /\ si_cat = "Weakly unstable" <=> (1 * Scale <= x /\ x <= 3 * Scale)
            /\ si_cat = "Moderately unstable" <=> (-3 * Scale <= x /\ x < 1 * Scale)
            /\ si_cat = "Strongly unstable" <=> x < -3 * Scale

\* The inclusive upper ends: K = 20, LI = 0 and SI = 3.
C2_Witness ==
    /\ Interpreted
    /\ k_val = F(20 * Scale) /\ li_val = F(0) /\ si_val = F(3 * Scale)
    /\ k_cat = "Weak" /\ li_cat = "Slightly unstable" /\ si_cat = "Weakly unstable"

\* An index function that raises, or returns an array float() cannot convert.
Unusable(o) == o.kind = "raise" \/ (o.kind = "array" /\ Len(o.m) # 1)
IndexFails == Unusable(lib.K) \/ Unusable(lib.LI) \/ Unusable(lib.SI)

\* C3: a stage runs only after the stage before it succeeded.  With an empty
\* cleaned profile the run reports "no valid data", no index function is called
\* and no index value exists; when an index call or conversion fails, the failure
\* is caught and reported as one error message, the classifier and the index
\* chart are never reached, and nothing escapes uncaught.
C3_StagesInOrder ==
    /\ InUi("error_no_data") =>
          /\ prof = <<>> /\ calls = 0
          /\ K = NoResult /\ LI = NoResult /\ SI = NoResult
          /\ k_val = None /\ li_val = None /\ si_val = None
          /\ ~Classified /\ ~InUi("error_indices")
    /\ (uploaded /\ pc = "done" /\ prof = <<>>) => InUi("error_no_data")
    /\ calls >= 1 => prof # <<>>
    /\ Classified => (calls = 3 /\ k_val # None /\ li_val # None /\ si_val # None)
    /\ (calls >= 1 /\ IndexFails) =>
          /\ ~Classified /\ ~Interpreted
          /\ ~InUi("assessment") /\ ~InUi("index_chart")
          /\ pc # "crashed" /\ ~InUi("uncaught_exception")
          /\ (pc = "done" => CountUi("error_indices") = 1)

\* All three functions returned, a conversion failed, the run ended with the message.
C3_Witness ==
    /\ pc = "done" /\ calls = 3 /\ IndexFails
    /\ InUi("error_indices") /\ ~Classified

\* C4 as stated: with a non-empty profile and a failed index computation the
\* profile plot is still produced in that run.
C4_Original == (pc = "done" /\ prof # <<>> /\ IndexFails) => InUi("profile_chart")

\* C4, amended: the profile plot is drawn only after all three indices were
\* computed and classified; a run whose index computation fails ends without it.
C4_PlotNeedsIndices ==
    /\ InUi("profile_chart") => (Classified /\ calls = 3 /\ ~IndexFails)
    /\ (pc = "done" /\ prof # <<>> /\ IndexFails) => ~InUi("profile_chart")

C4_Witness ==
    /\ pc = "done" /\ prof # <<>> /\ IndexFails
    /\ InUi("error_indices") /\ ~InUi("profile_chart")

\* The name of column k, lowercased, contains one of subs.
Matches(subs, k) == \E sub \in subs : Contains(sub, Lower(columns[k]))

\* The first column matching subs; without one, the column at 1-based position
\* pos when pos > 0 and the table is that wide; else None.
ExpectedRole(subs, pos) ==
    IF \E k \in DOMAIN columns : Matches(subs, k)
    THEN columns[CHOOSE k \in DOMAIN columns :
                    Matches(subs, k) /\ \A j \in 1..(k - 1) : ~Matches(subs, j)]
    ELSE IF pos > 0 /\ Len(columns) >= pos THEN columns[pos] ELSE None

\* C5: inference gives each role the first column, in table order, whose
\* lowercased name contains the role's substring; an unresolved role falls back to
\* column 0 / 1 / 2 for temperature / dew point / pressure when that position
\* exists; altitude has no fallback.  With at least 3 columns and no name
\* containing temp, dew or press the three roles are columns 0, 1, 2; with no
\* columns every role stays unresolved.
C5_Inference ==
    pc = "select" =>
        /\ temp_col = ExpectedRole({SubTemp}, 1)
        /\ dew_col = ExpectedRole({SubDew}, 2)
        /\ press_col = ExpectedRole({SubPress}, 3)
        /\ alt_col = ExpectedRole({SubAlt, SubHeight}, 0)
        /\ (Len(columns) >= 3 /\ \A k \in DOMAIN columns : ~Matches({SubTemp, SubDew, SubPress}, k))
              => (temp_col = columns[1] /\ dew_col = columns[2] /\ press_col = columns[3])
        /\ columns = <<>> =>
              (temp_col = None /\ dew_col = None /\ press_col = None /\ alt_col = None)

\* Three columns, none named after a role: the positional fallback decided.
C5_Witness ==
    /\ pc = "select" /\ Len(columns) = 3
    /\ \A k \in DOMAIN columns : ~Matches({SubTemp, SubDew, SubPress, SubAlt, SubHeight}, k)
    /\ temp_col = columns[1] /\ dew_col = columns[2] /\ press_col = columns[3]
    /\ alt_col = None

\* C6 as stated: a column literally named "Dew Point" gets the dew-point role
\* whatever its position and whatever the other names.
C6_Original == (pc = "select" /\ InColumns(NDewPoint, columns)) => dew_col = NDewPoint

\* C6, amended: the column named "Dew Point" gets the dew-point role, whatever
\* its position, when no column before it has "dew" in its lowercased name.
C6_DewPointUnlessEarlierDew ==
    pc = "select" =>
        \A k \in DOMAIN columns :
            (columns[k] = NDewPoint /\ \A j \in 1..(k - 1) : ~Matches({SubDew}, j))
                => dew_col = NDewPoint

\* "Dew Point" away from the fallback position 1 and found by name.
C6_Witness ==
    /\ pc = "select" /\ Len(columns) >= 3
    /\ columns[3] = NDewPoint /\ dew_col = NDewPoint

\* The rows of the table whose three mapped cells all parse as numbers.
NumericCell(cell) == cell[1] = "num" \/ (cell[1] = "text" /\ ParseText(cell[2]) # NaN)
Position(c) == CHOOSE k \in DOMAIN columns : columns[k] = c
NumericRow(k) ==
    \A c \in {temp_col, dew_col, press_col} : NumericCell(rows[k][Position(c)])
Cleaned == pc \in {"check", "callK", "done"}

\* C7 as stated: the profile handed on is ordered by non-increasing pressure and
\* rows of equal pressure keep their order in the table.
C7_Original ==
    pc = "callK" =>
        \A a, b \in DOMAIN prof :
            a < b => \/ prof[a].P[2] > prof[b].P[2]
                     \/ (prof[a].P[2] = prof[b].P[2] /\ prof[a].idx < prof[b].idx)

\* C7, amended: the profile handed on is ordered by non-increasing pressure and
\* holds exactly the cleaned rows, each once; the order of rows of equal pressure
\* is not fixed.
C7_SortedPermutation ==
    pc = "callK" =>
        /\ \A k \in 1..(Len(prof) - 1) : prof[k].P[2] >= prof[k + 1].P[2]
        /\ {prof[k].idx : k \in DOMAIN prof} = {k - 1 : k \in {j \in DOMAIN rows : NumericRow(j)}}
        /\ \A a, b \in DOMAIN prof : a # b => prof[a].idx # prof[b].idx
        /\ \A k \in DOMAIN prof :
              prof[k].P = ToNumeric(rows[prof[k].idx + 1][Position(press_col)])

\* Three levels, the sort moved a later table row in front of an earlier one.
C7_Witness ==
    /\ pc = "callK" /\ Len(prof) = 3
    /\ prof[1].P[2] > prof[3].P[2] /\ prof[1].idx > prof[3].idx

C9_Original ==
    (uploaded /\ Len(columns) < 3) =>
        /\ (pc = "prepare" /\ ~overrode) => press_col = None
        /\ pc # "crashed"
        /\ pc = "done" => InUi("error_no_data")

\* Array entries that are finite, their number and their sum.
RECURSIVE SumFinite(_)
SumFinite(a) ==
    IF a = <<>> THEN 0
    ELSE (IF IsFinite(Head(a)) THEN Head(a)[2] ELSE 0) + SumFinite(Tail(a))
CountFinite(a) == Cardinality({k \in DOMAIN a : IsFinite(a[k])})
Reduced(v, o) ==
    IF o.kind = "scalar" THEN v = o.m[1]
    ELSE IsFinite(v) /\ v[2] * CountFinite(o.m) = SumFinite(o.m)
Returned == calls = 3 /\ pc \in {"final", "except", "done"}
             /\ lib.K.kind # "raise" /\ lib.LI.kind # "raise" /\ lib.SI.kind # "raise"
Single(o) == o.kind = "scalar" \/ (o.kind = "array" /\ Len(o.m) = 1)

\* C10 as stated: an array-valued raw output is reported as the mean of its
\* finite entries, a scalar one as itself, and an array with a finite entry never
\* becomes an index-computation failure.
C10_Original ==
    (Returned /\ \A o \in {lib.K, lib.LI, lib.SI} : o.kind = "scalar" \/ CountFinite(o.m) >= 1)
        => /\ pc = "final"
           /\ Reduced(k_val, lib.K) /\ Reduced(li_val, lib.LI) /\ Reduced(si_val, lib.SI)

\* C10, amended: a raw output that is a scalar or an array of exactly one entry
\* is reported as that value; an array of any other length is not averaged but
\* ends the run as a caught index-computation failure.
C10_SingleValue ==
    /\ pc = "final" =>
          /\ Single(lib.K) /\ Single(lib.LI) /\ Single(lib.SI)
          /\ k_val = lib.K.m[1] /\ li_val = lib.LI.m[1] /\ si_val = lib.SI.m[1]
    /\ (Returned /\ Single(lib.K) /\ Single(lib.LI) /\ Single(lib.SI)) => pc = "final"
    /\ (Returned /\ ~(Single(lib.K) /\ Single(lib.LI) /\ Single(lib.SI))) =>
          /\ pc \in {"except", "done"} /\ si_val = None
          /\ pc = "done" => InUi("error_indices")

\* A one-entry array converted beside a scalar.
C10_Witness ==
    /\ pc = "final"
    /\ lib.K = Array(<<Th(HighK)>>) /\ k_val = Th(HighK)
    /\ lib.LI.kind = "scalar"

====
